---- MODULE Spec2Model ----
(***************************************************************************)
(* Warm transfer between an AI voice agent and a human agent               *)
(* (openai-programmable-sip).  The model follows the Node.js event loop:   *)
(* every action is one run-to-completion segment of a handler, from the    *)
(* event that starts it to the next await (or to its end).                 *)
(***************************************************************************)
EXTENDS Integers, Sequences, FiniteSets, TLC

\* ------------------------------------------------------------------ bounds
MaxRequests == 3    \* inbound HTTP requests and realtime messages, in total
MaxIntake == 2      \* POST /incoming-call requests
MaxHooks == 2       \* POST / requests
MaxCallbacks == 2   \* POST /conference-events requests
MaxMessages == 2    \* realtime messages, where calls run to their transfer

\* ------------------------------------------------------------- value sets
Undefined == "<undefined>"                 \* the JavaScript value undefined
CallSids == {"CA1", "CA2"}                 \* telephony call identifiers
CallIds == {"RTC1", "RTC2"}                \* AI provider call identifiers
FromOf(sid) == IF sid = "CA1" THEN "+15551230001" ELSE "+15551230002"
TokenOf(sid) == IF sid = "CA1" THEN "TOK1" ELSE "TOK2"

RealtimeIncomingCall == "realtime.call.incoming"
HUMAN_AGENT_NUMBER == "+15551112222"

\* a SIP header list as delivered in event.data.sip_headers
Hdr(n, v) == [name |-> n, value |-> v]
NoHeaders == [isArray |-> FALSE, items |-> <<>>]
ConferenceHeader(v) == Hdr("X-conferenceName", v)
\* the AI calls the model runs with: the INVITE of a call fixes its headers
HeaderAssignments ==
  { [c \in CallIds |-> IF c = "RTC1"
        THEN [isArray |-> TRUE, items |-> <<Hdr("User-Agent", "x"), ConferenceHeader("CA1")>>]
        ELSE [isArray |-> TRUE, items |-> <<ConferenceHeader("CA2"), ConferenceHeader("CA1")>>]],
    [c \in CallIds |-> IF c = "RTC1"
        THEN [isArray |-> TRUE, items |-> <<Hdr("User-Agent", "x")>>]
        ELSE NoHeaders] }

\* realtime messages; json = FALSE is a text JSON.parse rejects
Item(t, n, c) == [type |-> t, name |-> n, call_id |-> c]
Msg(j, t, o) == [json |-> j, type |-> t, output |-> o]
FunctionCallItem == Item("function_call", "addHumanAgent", "fc1")
Messages ==
  { Msg(FALSE, "", <<>>),
    Msg(TRUE, "session.created", <<FunctionCallItem>>),
    Msg(TRUE, "response.done", <<>>),
    Msg(TRUE, "response.done", <<FunctionCallItem>>),
    Msg(TRUE, "response.done", <<Item("message", "", Undefined), FunctionCallItem>>),
    Msg(TRUE, "response.done", <<Item("function_call", "addHumanAgent", Undefined)>>),
    Msg(TRUE, "response.done", <<Item("function_call", "lookupOrder", "fc2")>>) }

\* participant lists the telephony provider may return for a conference
Part(l, c) == [label |-> l, callSid |-> c]
ListResponses ==
  { <<>>,
    <<Part("customer", "CAcust"), Part("virtual agent", "CAva")>>,
    <<Part("virtual agent", "CAva"), Part("customer", "CAcust"), Part("human agent", "CAhum")>>,
    <<Part("customer", "CAcust"), Part("human agent", "CAhum")>>,
    <<Part("customer", "CAcust"), Part("virtual agent", "CAva"), Part("virtual agent", "CAva2"),
      Part("human agent", "CAhum")>> }

\* (ParticipantLabel, StatusCallbackEvent) pairs of conference callbacks
Callbacks == { <<"human agent", "participant-join">>, <<"human agent", "participant-leave">>,
               <<"virtual agent", "participant-join">>, <<"customer", "participant-join">> }
\* fields an inbound-call request carries: all of them, or one missing
IntakeFields(sid) == { <<FromOf(sid), TokenOf(sid)>>, <<Undefined, TokenOf(sid)>>,
                       <<FromOf(sid), Undefined>> }

\* errors a webhook handler may catch
Err(n, m) == [name |-> n, message |-> m]
SignatureError == Err("InvalidWebhookSignatureError", "The given webhook signature does not match")
LegacySignatureError == Err("Error", "Invalid Signature header")
PayloadError == Err("SyntaxError", "Unexpected token in JSON")
FetchError == Err("TypeError", "fetch failed")
UnwrapErrors == {SignatureError, LegacySignatureError, PayloadError}

VARIABLES
  callIDtoConferenceNameMapping,
  ConferenceNametoCallerIDMapping,
  ConferenceNametoCallTokenMapping,
  sipHeadersOf,         \* the SIP headers of each AI call (fixed by its INVITE)
  intakes,              \* /incoming-call requests and their responses
  creates,              \* participant-create requests sent to the provider
  watchers,             \* /conference-events requests and their watcher tasks
  updates,              \* call-update (termination) requests sent
  hooks,                \* POST / requests and their handler positions
  timers,               \* pending setTimeout callbacks (hook ids)
  sessions,             \* realtime transports
  nEvents,              \* realtime messages delivered so far
  received,             \* log: the transport and the kind of every delivered message
  errorLog,             \* console.error lines of the HTTP and message handlers
  unhandledRejections,  \* promises rejected with no handler
  running               \* the process is alive

vars == << callIDtoConferenceNameMapping, ConferenceNametoCallerIDMapping,
           ConferenceNametoCallTokenMapping, sipHeadersOf, intakes, creates,
           watchers, updates, hooks, timers, sessions, nEvents, received, errorLog,
           unhandledRejections, running >>

tables == << callIDtoConferenceNameMapping, ConferenceNametoCallerIDMapping,
             ConferenceNametoCallTokenMapping >>

\* --------------------------------------------------------- pure functions
\* obj[k] of a Record<string, string | undefined>
Get(t, k) == IF k \in DOMAIN t THEN t[k] ELSE Undefined
\* mutant: the assignment replaces the table
PutAlone(t, k, v) == [x \in {k} |-> v]
\* obj[k] = v
Put(t, k, v) == [x \in (DOMAIN t) \cup {k} |-> IF x = k THEN v ELSE t[x]]
\* !v for a string | undefined
Falsy(v) == v = Undefined \/ v = ""
\* v ?? ... takes the right side
Nullish(v) == v = Undefined

RECURSIVE FindIndex(_, _, _)
FindIndex(s, n, i) ==
  IF i > Len(s) THEN 0
  ELSE IF s[i].name = n THEN i ELSE FindIndex(s, n, i + 1)

\* mutant: takes the first header of the list, whatever its name
FoundConferenceNameFirstItem(sipHeaders) ==
  IF ~sipHeaders.isArray \/ Len(sipHeaders.items) = 0 THEN Undefined
  ELSE sipHeaders.items[1].value

\* lines 154-161: the value of the first X-conferenceName header
FoundConferenceName(sipHeaders) ==
  IF ~sipHeaders.isArray THEN Undefined
  ELSE LET i == FindIndex(sipHeaders.items, "X-conferenceName", 1)
       IN IF i = 0 THEN Undefined ELSE sipHeaders.items[i].value

\* line 188: the transport URI built for a call id
WssUrl(callId) == [base |-> "wss://api.openai.com/v1/realtime",
                   query |-> <<Hdr("call_id", callId)>>]
\* mutant: one call id for every transport
ExtractCallIdShared(uri) == "RTC1"

\* lines 259-260: url.searchParams.get("call_id")
ExtractCallId(uri) ==
  LET i == FindIndex(uri.query, "call_id", 1)
  IN IF i = 0 THEN Undefined ELSE uri.query[i].value

\* mutant: the call-correlation token of the function call is not looked at
IsHandoffTriggerAnyToken(output) ==
  /\ output.type = "function_call"
  /\ output.name = "addHumanAgent"

\* lines 255-258: the hand-off trigger
IsHandoffTrigger(output) ==
  /\ output.type = "function_call"
  /\ output.name = "addHumanAgent"
  /\ ~Falsy(output.call_id)

\* line 200: msg.toLowerCase().includes("invalid signature"), over the messages
\* the model draws errors from
IncludesInvalidSignature(message) ==
  message \in {"Invalid Signature header", "invalid signature"}

\* mutant: every caught error is a server error
CatchStatusServerError(e) == 500

\* lines 198-204: the status the catch block answers with
CatchStatus(e) ==
  IF e.name = "InvalidWebhookSignatureError" \/ IncludesInvalidSignature(e.message)
  THEN 400 ELSE 500

\* line 242: response.response?.output?.[0] is an object
HasOutput(msg) == Len(msg.output) > 0

\* mutant: the label is not looked at, every participant is ended
NextVirtualAgentAnyLabel(participants, i) == IF i > Len(participants) THEN 0 ELSE i

\* lines 120-121: the next participant labelled "virtual agent", from index i on
RECURSIVE NextVirtualAgent(_, _)
NextVirtualAgent(participants, i) ==
  IF i > Len(participants) THEN 0
  ELSE IF participants[i].label = "virtual agent" THEN i
  ELSE NextVirtualAgent(participants, i + 1)

\* messages the server sends on a transport
Sent(t, instr) == [type |-> t, instructions |-> instr]
responseCreate == Sent("response.create", "Say to the user: Hello, I'm an AI agent. How can I help you?")
keepChatting == Sent("conversation.item.create", Undefined)
plainResponseCreate == Sent("response.create", Undefined)

\* a rejected promise nobody handles: Node reports it and, in its default mode,
\* ends the process; with --unhandled-rejections=warn the process goes on
Reject(task, reason) ==
  /\ unhandledRejections' = unhandledRejections \cup {[task |-> task, reason |-> reason]}
  /\ running' \in BOOLEAN

\* requests and messages received so far
nRequests == Len(intakes) + Len(hooks) + Len(watchers) + nEvents

Init ==
  /\ callIDtoConferenceNameMapping = << >>
  /\ ConferenceNametoCallerIDMapping = << >>
  /\ ConferenceNametoCallTokenMapping = << >>
  /\ sipHeadersOf \in HeaderAssignments
  /\ intakes = << >>
  /\ creates = << >>
  /\ watchers = << >>
  /\ updates = << >>
  /\ hooks = << >>
  /\ timers = {}
  /\ sessions = << >>
  /\ nEvents = 0
  /\ received = << >>
  /\ errorLog = {}
  /\ unhandledRejections = {}
  /\ running = TRUE

\* mutant: one conference name for every call
ConferenceNameShared(CallSid) == "CA1"

\* line 67: the conference is named after the inbound call
ConferenceNameOf(CallSid) == CallSid

\* ------------------------------------------------- POST /incoming-call
\* mutant: the handler awaits createParticipant before it answers
IncomingCallHandlerAwaits(CallSid, From, CallToken) ==
  /\ running
  /\ LET conferenceName == ConferenceNameOf(CallSid) IN
     /\ ConferenceNametoCallerIDMapping' = Put(ConferenceNametoCallerIDMapping, conferenceName, From)
     /\ ConferenceNametoCallTokenMapping' = Put(ConferenceNametoCallTokenMapping, conferenceName, CallToken)
     /\ creates' = Append(creates, [conference |-> conferenceName, label |-> "virtual agent",
                                    from |-> From, callToken |-> CallToken,
                                    status |-> "pending", session |-> 0])
     /\ intakes' = Append(intakes, [CallSid |-> CallSid, From |-> From, CallToken |-> CallToken,
                                    status |-> 0, conference |-> conferenceName])
  /\ UNCHANGED << callIDtoConferenceNameMapping, sipHeadersOf, watchers, updates, hooks,
                  timers, sessions, nEvents, received, errorLog, unhandledRejections, running >>

\* lines 62-103: the whole handler runs without a suspension point; the
\* participant-create request of createParticipant is sent before it yields
IncomingCallHandler(CallSid, From, CallToken) ==
  /\ running
  /\ LET conferenceName == ConferenceNameOf(CallSid) IN
     /\ ConferenceNametoCallerIDMapping' = Put(ConferenceNametoCallerIDMapping, conferenceName, From)
     /\ ConferenceNametoCallTokenMapping' = Put(ConferenceNametoCallTokenMapping, conferenceName, CallToken)
     /\ creates' = Append(creates, [conference |-> conferenceName, label |-> "virtual agent",
                                    from |-> From, callToken |-> CallToken,
                                    status |-> "pending", session |-> 0])
     /\ intakes' = Append(intakes, [CallSid |-> CallSid, From |-> From, CallToken |-> CallToken,
                                    status |-> 200, conference |-> conferenceName])
  /\ UNCHANGED << callIDtoConferenceNameMapping, sipHeadersOf, watchers, updates, hooks,
                  timers, sessions, nEvents, received, errorLog, unhandledRejections, running >>

\* one inbound call reaches POST /incoming-call, within the bounds on requests
IncomingCall(CallSid, From, CallToken) ==
  /\ nRequests < MaxRequests /\ Len(intakes) < MaxIntake
  /\ IncomingCallHandler(CallSid, From, CallToken)

\* lines 72-86 and 298-307: the awaited participant-create request completes;
\* nothing catches its failure
CreateReturns(r, ok) ==
  /\ running
  /\ r \in DOMAIN creates
  /\ creates[r].status = "pending"
  /\ creates' = [creates EXCEPT ![r].status = IF ok THEN "ok" ELSE "failed"]
  /\ IF ok
     THEN UNCHANGED << unhandledRejections, running >>
     ELSE Reject(IF creates[r].label = "virtual agent" THEN "createParticipant" ELSE "addHuman",
                 "provider request failed")
  /\ UNCHANGED << tables, sipHeadersOf, intakes, watchers, updates, hooks, timers,
                  sessions, nEvents, received, errorLog >>

\* ------------------------------------------------ POST /conference-events
\* mutant: the watcher task starts on any callback of a human agent
ConferenceEventsHandlerAnyEvent(ParticipantLabel, StatusCallbackEvent, ConferenceSid) ==
  /\ running
  /\ watchers' = Append(watchers,
        [ParticipantLabel |-> ParticipantLabel, StatusCallbackEvent |-> StatusCallbackEvent,
         ConferenceSid |-> ConferenceSid,
         pc |-> IF ParticipantLabel = "human agent" THEN "listing" ELSE "returned",
         participants |-> << >>, i |-> 0, status |-> 0])
  /\ UNCHANGED << tables, sipHeadersOf, intakes, creates, updates, hooks, timers,
                  sessions, nEvents, received, errorLog, unhandledRejections, running >>

\* mutant: the watcher task starts on the join of any participant
ConferenceEventsHandlerAnyLabel(ParticipantLabel, StatusCallbackEvent, ConferenceSid) ==
  /\ running
  /\ watchers' = Append(watchers,
        [ParticipantLabel |-> ParticipantLabel, StatusCallbackEvent |-> StatusCallbackEvent,
         ConferenceSid |-> ConferenceSid,
         pc |-> IF StatusCallbackEvent = "participant-join" THEN "listing" ELSE "returned",
         participants |-> << >>, i |-> 0, status |-> 0])
  /\ UNCHANGED << tables, sipHeadersOf, intakes, creates, updates, hooks, timers,
                  sessions, nEvents, received, errorLog, unhandledRejections, running >>

\* lines 106-133: the handler starts the watcher task (its list request is
\* sent before it yields) and returns; it never touches res
ConferenceEventsHandler(ParticipantLabel, StatusCallbackEvent, ConferenceSid) ==
  /\ running
  /\ watchers' = Append(watchers,
        [ParticipantLabel |-> ParticipantLabel, StatusCallbackEvent |-> StatusCallbackEvent,
         ConferenceSid |-> ConferenceSid,
         pc |-> IF ParticipantLabel = "human agent" /\ StatusCallbackEvent = "participant-join"
                THEN "listing" ELSE "returned",
         participants |-> << >>, i |-> 0, status |-> 0])
  /\ UNCHANGED << tables, sipHeadersOf, intakes, creates, updates, hooks, timers,
                  sessions, nEvents, received, errorLog, unhandledRejections, running >>

\* one conference callback reaches POST /conference-events, within the bounds
ConferenceEvents(ParticipantLabel, StatusCallbackEvent, ConferenceSid) ==
  /\ nRequests < MaxRequests /\ Len(watchers) < MaxCallbacks
  /\ ConferenceEventsHandler(ParticipantLabel, StatusCallbackEvent, ConferenceSid)

\* lines 120-127 from index i: send the update for the next virtual agent and
\* suspend on it, or finish the loop
ContinueLoop(w, participants, i) ==
  LET j == NextVirtualAgent(participants, i) IN
  IF j = 0
  THEN /\ watchers' = [watchers EXCEPT ![w].pc = "done", ![w].participants = participants,
                                        ![w].i = Len(participants) + 1]
       /\ UNCHANGED updates
  ELSE /\ watchers' = [watchers EXCEPT ![w].pc = "updating", ![w].participants = participants,
                                        ![w].i = j]
       /\ updates' = Append(updates, [callSid |-> participants[j].callSid, watcher |-> w,
                                      status |-> "pending"])

\* lines 114-118: the participant list arrives, or the request fails
ListReturns(w, ok, participants) ==
  /\ running
  /\ w \in DOMAIN watchers
  /\ watchers[w].pc = "listing"
  /\ IF ok
     THEN /\ ContinueLoop(w, participants, 1)
          /\ UNCHANGED << unhandledRejections, running >>
     ELSE /\ watchers' = [watchers EXCEPT ![w].pc = "rejected"]
          /\ Reject("findVirtualAgentandDisconnect", "provider request failed")
          /\ UNCHANGED updates
  /\ UNCHANGED << tables, sipHeadersOf, intakes, creates, hooks, timers, sessions,
                  nEvents, received, errorLog >>

\* line 124: the awaited call update completes, or fails and ends the task
UpdateReturns(u, ok) ==
  /\ running
  /\ u \in DOMAIN updates
  /\ updates[u].status = "pending"
  /\ LET w == updates[u].watcher IN
     IF ok
     THEN LET j == NextVirtualAgent(watchers[w].participants, watchers[w].i + 1) IN
          /\ IF j = 0
             THEN /\ watchers' = [watchers EXCEPT ![w].pc = "done",
                                     ![w].i = Len(watchers[w].participants) + 1]
                  /\ updates' = [updates EXCEPT ![u].status = "ok"]
             ELSE /\ watchers' = [watchers EXCEPT ![w].i = j]
                  /\ updates' = Append([updates EXCEPT ![u].status = "ok"],
                        [callSid |-> watchers[w].participants[j].callSid, watcher |-> w,
                         status |-> "pending"])
          /\ UNCHANGED << unhandledRejections, running >>
     ELSE /\ watchers' = [watchers EXCEPT ![w].pc = "rejected"]
          /\ updates' = [updates EXCEPT ![u].status = "failed"]
          /\ Reject("findVirtualAgentandDisconnect", "provider request failed")
  /\ UNCHANGED << tables, sipHeadersOf, intakes, creates, hooks, timers, sessions,
                  nEvents, received, errorLog >>

\* ------------------------------------------------------------- POST /
\* lines 139-163 and 196-204: the handler up to its first effect. unwrap
\* either throws (the catch block answers) or yields the event; an event of
\* another type is acknowledged; an incoming call is recorded and the accept
\* request is sent
WebhookPostHandler(unwrapError, type, callId) ==
  /\ running
  /\ IF unwrapError # "none"
     THEN /\ \E e \in UnwrapErrors :
               /\ e.name = unwrapError
               /\ hooks' = Append(hooks, [unwrap |-> e.name, type |-> Undefined,
                                          callId |-> Undefined, pc |-> "done",
                                          status |-> CatchStatus(e), accept |-> "none"])
          /\ UNCHANGED callIDtoConferenceNameMapping
     ELSE IF type # RealtimeIncomingCall
     THEN /\ hooks' = Append(hooks, [unwrap |-> "ok", type |-> type, callId |-> Undefined,
                                     pc |-> "done", status |-> 200, accept |-> "none"])
          /\ UNCHANGED callIDtoConferenceNameMapping
     ELSE /\ callIDtoConferenceNameMapping' =
               Put(callIDtoConferenceNameMapping, callId, FoundConferenceName(sipHeadersOf[callId]))
          /\ hooks' = Append(hooks, [unwrap |-> "ok", type |-> type, callId |-> callId,
                                     pc |-> "accepting", status |-> 0, accept |-> "pending"])
  /\ UNCHANGED << ConferenceNametoCallerIDMapping, ConferenceNametoCallTokenMapping,
                  sipHeadersOf, intakes, creates, watchers, updates, timers, sessions,
                  nEvents, received, errorLog, unhandledRejections, running >>

\* one webhook event reaches POST /, within the bounds on requests
WebhookPost(unwrapError, type, callId) ==
  /\ nRequests < MaxRequests /\ Len(hooks) < MaxHooks
  /\ WebhookPostHandler(unwrapError, type, callId)

\* lines 211-218: connectWithDelay only arms the timer
connectWithDelay(h) == timers' = timers \cup {h}

\* mutant: the transport is scheduled before the accept status is looked at
AcceptReturnsConnectFirst(h, outcome) ==
  /\ running
  /\ h \in DOMAIN hooks
  /\ hooks[h].pc = "accepting"
  /\ timers' = timers \cup {h}
  /\ hooks' = [hooks EXCEPT ![h].pc = "done", ![h].accept = outcome,
                            ![h].status = IF outcome = "ok" THEN 200 ELSE 500]
  /\ errorLog' = IF outcome = "notok" THEN errorLog \cup {"ACCEPT failed"} ELSE errorLog
  /\ UNCHANGED << tables, sipHeadersOf, intakes, creates, watchers, updates, sessions,
                  nEvents, received, unhandledRejections, running >>

\* lines 167-194 and 198-204: the accept request returns ok, returns a
\* non-success status, or fetch throws
AcceptReturns(h, outcome) ==
  /\ running
  /\ h \in DOMAIN hooks
  /\ hooks[h].pc = "accepting"
  /\ CASE outcome = "ok" ->
            /\ connectWithDelay(h)
            /\ hooks' = [hooks EXCEPT ![h].pc = "done", ![h].status = 200, ![h].accept = "ok"]
            /\ UNCHANGED errorLog
       [] outcome = "notok" ->
            /\ errorLog' = errorLog \cup {"ACCEPT failed"}
            /\ hooks' = [hooks EXCEPT ![h].pc = "done", ![h].status = 500, ![h].accept = "notok"]
            /\ UNCHANGED timers
       [] outcome = "throws" ->
            /\ hooks' = [hooks EXCEPT ![h].pc = "done", ![h].status = CatchStatus(FetchError),
                                      ![h].accept = "throws"]
            /\ UNCHANGED << timers, errorLog >>
  /\ UNCHANGED << tables, sipHeadersOf, intakes, creates, watchers, updates, sessions,
                  nEvents, received, unhandledRejections, running >>

\* ------------------------------------------------- realtime transport
\* lines 213 and 220-228: the timer fires and websocketTask creates the socket
TimerFires(h) ==
  /\ running
  /\ h \in timers
  /\ timers' = timers \ {h}
  /\ sessions' = Append(sessions, [uri |-> WssUrl(hooks[h].callId), hook |-> h,
                                   state |-> "connecting", sent |-> << >>])
  /\ UNCHANGED << tables, sipHeadersOf, intakes, creates, watchers, updates, hooks,
                  nEvents, received, errorLog, unhandledRejections, running >>

\* lines 230-233
WsOpen(s) ==
  /\ running
  /\ s \in DOMAIN sessions
  /\ sessions[s].state = "connecting"
  /\ sessions' = [sessions EXCEPT ![s].state = "open", ![s].sent = <<responseCreate>>]
  /\ UNCHANGED << tables, sipHeadersOf, intakes, creates, watchers, updates, hooks,
                  timers, nEvents, received, errorLog, unhandledRejections, running >>

\* lines 310-316: the transport fails or closes; both handlers only write a
\* log line (not kept in errorLog) and nothing reconnects
WsClose(s) ==
  /\ running
  /\ s \in DOMAIN sessions
  /\ sessions[s].state \in {"connecting", "open"}
  /\ sessions' = [sessions EXCEPT ![s].state = "closed"]
  /\ UNCHANGED << tables, sipHeadersOf, intakes, creates, watchers, updates, hooks,
                  timers, nEvents, received, errorLog, unhandledRejections, running >>

\* mutant: no check of the conference name before the lookups
addHumanUnchecked(openAiCallId) ==
  LET conferenceName == Get(callIDtoConferenceNameMapping, openAiCallId)
      callToken == Get(ConferenceNametoCallTokenMapping, conferenceName)
      callerID == Get(ConferenceNametoCallerIDMapping, conferenceName)
  IN IF Nullish(callerID) THEN [kind |-> "throw", reason |-> "CallerID is not defined"]
     ELSE IF Nullish(callToken) THEN [kind |-> "throw", reason |-> "CallToken is not defined"]
     ELSE [kind |-> "request", conference |-> conferenceName, label |-> "human agent",
           from |-> callerID, callToken |-> callToken]

\* lines 287-307: what addHuman does before its first suspension point
addHuman(openAiCallId) ==
  LET conferenceName == Get(callIDtoConferenceNameMapping, openAiCallId) IN
  IF Falsy(conferenceName) THEN [kind |-> "abort", log |-> "Conference name is undefined"]
  ELSE LET callToken == Get(ConferenceNametoCallTokenMapping, conferenceName)
           callerID == Get(ConferenceNametoCallerIDMapping, conferenceName)
       IN IF Nullish(callerID) THEN [kind |-> "throw", reason |-> "CallerID is not defined"]
          ELSE IF Nullish(HUMAN_AGENT_NUMBER)
          THEN [kind |-> "throw", reason |-> "HUMAN_AGENT_NUMBER is not defined"]
          ELSE IF Nullish(callToken) THEN [kind |-> "throw", reason |-> "CallToken is not defined"]
          ELSE [kind |-> "request", conference |-> conferenceName, label |-> "human agent",
                from |-> callerID, callToken |-> callToken]

\* mutant: the follow-up instructions are sent only with a participant request
handleFunctionCallSendsOnRequest(s) ==
  LET extractedCallId == ExtractCallId(sessions[s].uri)
      r == addHuman(extractedCallId)
  IN /\ sessions' = [sessions EXCEPT ![s].sent =
            IF ~Falsy(extractedCallId) /\ r.kind = "request"
            THEN @ \o <<keepChatting, plainResponseCreate>> ELSE @]
     /\ IF Falsy(extractedCallId)
        THEN /\ errorLog' = errorLog \cup {"Call ID is null"}
             /\ UNCHANGED << creates, unhandledRejections, running >>
        ELSE CASE r.kind = "abort" ->
                    /\ errorLog' = errorLog \cup {r.log}
                    /\ UNCHANGED << creates, unhandledRejections, running >>
               [] r.kind = "throw" ->
                    /\ Reject("addHuman", r.reason)
                    /\ UNCHANGED << creates, errorLog >>
               [] r.kind = "request" ->
                    /\ creates' = Append(creates, [conference |-> r.conference, label |-> r.label,
                                                   from |-> r.from, callToken |-> r.callToken,
                                                   status |-> "pending", session |-> s])
                    /\ UNCHANGED << errorLog, unhandledRejections, running >>

\* lines 253-285: handleFunctionCall, for an output that is the trigger
handleFunctionCall(s) ==
  LET extractedCallId == ExtractCallId(sessions[s].uri)
      r == addHuman(extractedCallId)
  IN /\ sessions' = [sessions EXCEPT ![s].sent = @ \o <<keepChatting, plainResponseCreate>>]
     /\ IF Falsy(extractedCallId)
        THEN /\ errorLog' = errorLog \cup {"Call ID is null"}
             /\ UNCHANGED << creates, unhandledRejections, running >>
        ELSE CASE r.kind = "abort" ->
                    /\ errorLog' = errorLog \cup {r.log}
                    /\ UNCHANGED << creates, unhandledRejections, running >>
               [] r.kind = "throw" ->
                    /\ Reject("addHuman", r.reason)
                    /\ UNCHANGED << creates, errorLog >>
               [] r.kind = "request" ->
                    /\ creates' = Append(creates, [conference |-> r.conference, label |-> r.label,
                                                   from |-> r.from, callToken |-> r.callToken,
                                                   status |-> "pending", session |-> s])
                    /\ UNCHANGED << errorLog, unhandledRejections, running >>

\* what the AI provider sent, whatever the server makes of it: a text that is
\* not JSON, a completed response whose first output item is the
\* addHumanAgent function call with a call-correlation token, or anything else
KindOf(msg) ==
  IF ~msg.json THEN "malformed"
  ELSE IF msg \in { m \in Messages : /\ m.type = "response.done"
                                     /\ m.output # << >>
                                     /\ Head(m.output).type = "function_call"
                                     /\ Head(m.output).name = "addHumanAgent"
                                     /\ Head(m.output).call_id # Undefined }
  THEN "trigger"
  ELSE "other"

\* mutant: JSON.parse outside the try block, the failure ends the transport
WsMessageHandlerNoCatch(s, msg) ==
  /\ running
  /\ s \in DOMAIN sessions
  /\ sessions[s].state = "open"
  /\ nEvents' = nEvents + 1
  /\ received' = Append(received, [session |-> s, kind |-> KindOf(msg)])
  /\ IF ~msg.json
     THEN /\ sessions' = [sessions EXCEPT ![s].state = "closed"]
          /\ UNCHANGED << creates, errorLog, unhandledRejections, running >>
     ELSE IF msg.type = "response.done"
     THEN IF HasOutput(msg) /\ IsHandoffTrigger(msg.output[1])
          THEN handleFunctionCall(s)
          ELSE UNCHANGED << sessions, creates, errorLog, unhandledRejections, running >>
     ELSE UNCHANGED << sessions, creates, errorLog, unhandledRejections, running >>
  /\ UNCHANGED << tables, sipHeadersOf, intakes, watchers, updates, hooks, timers >>

\* lines 235-251: one inbound message on an open transport
WsMessageHandler(s, msg) ==
  /\ running
  /\ s \in DOMAIN sessions
  /\ sessions[s].state = "open"
  /\ nEvents' = nEvents + 1
  /\ received' = Append(received, [session |-> s, kind |-> KindOf(msg)])
  /\ IF ~msg.json
     THEN /\ errorLog' = errorLog \cup {"Error processing OpenAI message"}
          /\ UNCHANGED << sessions, creates, unhandledRejections, running >>
     ELSE IF msg.type = "response.done"
     THEN IF HasOutput(msg) /\ IsHandoffTrigger(msg.output[1])
          THEN handleFunctionCall(s)
          ELSE UNCHANGED << sessions, creates, errorLog, unhandledRejections, running >>
     ELSE UNCHANGED << sessions, creates, errorLog, unhandledRejections, running >>
  /\ UNCHANGED << tables, sipHeadersOf, intakes, watchers, updates, hooks, timers >>

\* one message arrives on a transport, within the bound on requests
WsMessage(s, msg) ==
  /\ nRequests < MaxRequests
  /\ WsMessageHandler(s, msg)

\* --------------------------------------------------------- specification
NextIntake ==
  \/ \E sid \in CallSids : \E f \in IntakeFields(sid) : IncomingCall(sid, f[1], f[2])
  \/ \E r \in DOMAIN creates, ok \in BOOLEAN : CreateReturns(r, ok)

NextWatcher ==
  \/ \E cb \in Callbacks, c \in CallSids : ConferenceEvents(cb[1], cb[2], c)
  \/ \E w \in DOMAIN watchers, ok \in BOOLEAN, ps \in ListResponses : ListReturns(w, ok, ps)
  \/ \E u \in DOMAIN updates, ok \in BOOLEAN : UpdateReturns(u, ok)

NextAccept ==
  \/ \E e \in UnwrapErrors : WebhookPost(e.name, Undefined, Undefined)
  \/ WebhookPost("none", "realtime.call.ended", Undefined)
  \/ \E c \in CallIds : WebhookPost("none", RealtimeIncomingCall, c)
  \/ \E h \in DOMAIN hooks, o \in {"ok", "notok", "throws"} : AcceptReturns(h, o)
  \/ \E h \in timers : TimerFires(h)
  \/ \E s \in DOMAIN sessions : WsOpen(s)
  \/ \E s \in DOMAIN sessions : WsClose(s)
  \/ \E s \in DOMAIN sessions, m \in Messages : WsMessage(s, m)

Next == NextIntake \/ NextWatcher \/ NextAccept

\* the whole server
Spec == Init /\ [][Next]_vars
\* one component at a time
SpecIntake == Init /\ [][NextIntake]_vars
SpecWatcher == Init /\ [][NextWatcher]_vars
\* a call from intake to hand-off
SpecCall == Init /\ [][NextIntake \/ NextAccept]_vars
\* the whole server, with one inbound request or message and one conference
\* callback fewer
NextServer ==
  /\ Next
  /\ nRequests' > nRequests => nRequests < MaxRequests - 1
  /\ Len(watchers') < MaxCallbacks
SpecServer == Init /\ [][NextServer]_vars

\* ------------------------------------------- the provider's side of a call
\* The conference callbacks are asked for at lines 81-82 and 94-95 (event
\* "join"): the provider sends one when a participant of the conference
\* joins, and the participants it lists (lines 114-118) are the caller
\* bridged by the intake document and the participants the server created
\* there, less the calls it has ended.
ParticipantSid(r) == "CP" \o ToString(r)
Terminated(callSid) ==
  \E u \in DOMAIN updates : updates[u].callSid = callSid /\ updates[u].status = "ok"
RECURSIVE Joined(_, _)
Joined(conference, r) ==
  IF r > Len(creates) THEN << >>
  ELSE (IF /\ creates[r].conference = conference
           /\ creates[r].status # "failed"
           /\ ~Terminated(ParticipantSid(r))
        THEN << Part(creates[r].label, ParticipantSid(r)) >>
        ELSE << >>) \o Joined(conference, r + 1)
ConferenceList(conference) ==
  (IF \E i \in DOMAIN intakes : intakes[i].conference = conference
   THEN << Part("customer", conference) >> ELSE << >>) \o Joined(conference, 1)

\* join callbacks delivered, and participants created, with a label in a conference
Announced(label, conference) ==
  Cardinality({w \in DOMAIN watchers : /\ watchers[w].ParticipantLabel = label
                                       /\ watchers[w].ConferenceSid = conference})
Created(label, conference) ==
  Cardinality({r \in DOMAIN creates : /\ creates[r].label = label
                                      /\ creates[r].conference = conference
                                      /\ creates[r].status # "failed"})
\* the join callback of a participant the server created: one per participant
JoinCallback(r) ==
  /\ r \in DOMAIN creates
  /\ creates[r].status # "failed"
  /\ Announced(creates[r].label, creates[r].conference)
       < Created(creates[r].label, creates[r].conference)
  /\ Len(watchers) < MaxCallbacks
  /\ ConferenceEventsHandler(creates[r].label, "participant-join", creates[r].conference)
\* the list request of a watcher is answered with the conference as it is
ProviderLists(w, ok) ==
  /\ w \in DOMAIN watchers
  /\ ListReturns(w, ok, ConferenceList(watchers[w].ConferenceSid))

NextProvider ==
  \/ \E r \in DOMAIN creates : JoinCallback(r)
  \/ \E w \in DOMAIN watchers, ok \in BOOLEAN : ProviderLists(w, ok)
  \/ \E u \in DOMAIN updates, ok \in BOOLEAN : UpdateReturns(u, ok)

\* calls whose requests are well formed: every inbound call carries From and
\* CallToken, every webhook is a verified incoming-call event; provider
\* requests still succeed or fail, transports open and close, and any
\* message may arrive
NextCalls ==
  \/ \E sid \in CallSids : IncomingCall(sid, FromOf(sid), TokenOf(sid))
  \/ \E r \in DOMAIN creates, ok \in BOOLEAN : CreateReturns(r, ok)
  \/ \E c \in CallIds : WebhookPost("none", RealtimeIncomingCall, c)
  \/ \E h \in DOMAIN hooks, o \in {"ok", "notok", "throws"} : AcceptReturns(h, o)
  \/ \E h \in timers : TimerFires(h)
  \/ \E s \in DOMAIN sessions : WsOpen(s)
  \/ \E s \in DOMAIN sessions : WsClose(s)
  \/ \E s \in DOMAIN sessions, m \in Messages : WsMessage(s, m)

\* calls from intake to the removal of the AI leg, with the conference
\* callbacks and participant lists the provider produces for them
SpecProvider == Init /\ [][NextCalls \/ NextProvider]_vars

\* ------------------------------------------------ calls run to transfer
\* The requests of calls as the providers produce them, with every provider
\* request succeeding.  An inbound call is announced once; the AI provider
\* announces a call once, after the participant-create request whose SIP URI
\* carries its X-conferenceName (line 78); the only messages are hand-off
\* triggers, and transports stay open.
IntakeOnce(CallSid, From, CallToken) ==
  /\ \A i \in DOMAIN intakes : intakes[i].CallSid # CallSid
  /\ Len(intakes) < MaxIntake
  /\ IncomingCallHandler(CallSid, From, CallToken)
AiCallArrives(callId) ==
  /\ Created("virtual agent", FoundConferenceName(sipHeadersOf[callId])) > 0
  /\ \A h \in DOMAIN hooks : hooks[h].callId # callId
  /\ Len(hooks) < MaxHooks
  /\ WebhookPostHandler("none", RealtimeIncomingCall, callId)
TriggerArrives(s, msg) ==
  /\ KindOf(msg) = "trigger"
  /\ nEvents < MaxMessages
  /\ WsMessageHandler(s, msg)
\* the continuations of the server's own requests and timers
Continuations ==
  \/ \E r \in DOMAIN creates : CreateReturns(r, TRUE)
  \/ \E h \in DOMAIN hooks : AcceptReturns(h, "ok")
  \/ \E h \in timers : TimerFires(h)
  \/ \E s \in DOMAIN sessions : WsOpen(s)
  \/ \E w \in DOMAIN watchers : ProviderLists(w, TRUE)
  \/ \E u \in DOMAIN updates : UpdateReturns(u, TRUE)
NextTransfer ==
  \/ \E sid \in CallSids : \E f \in IntakeFields(sid) : IntakeOnce(sid, f[1], f[2])
  \/ \E c \in CallIds : AiCallArrives(c)
  \/ \E s \in DOMAIN sessions, m \in Messages : TriggerArrives(s, m)
  \/ \E r \in DOMAIN creates : JoinCallback(r)
  \/ Continuations
\* Node's event loop runs every due timer and the continuation of every
\* settled promise while the process is alive: weak fairness of the
\* continuations.  Nothing obliges a caller, a provider or a model to send.
SpecTransfer == Init /\ [][NextTransfer]_vars /\ WF_vars(Continuations)

\* ------------------------------------------------ calls side by side
\* Two calls in any interleaving: each inbound call and each AI call is
\* announced once, in any order and with any intake fields; participant
\* requests succeed or fail; the messages are hand-off triggers.
AiCallOnce(callId) ==
  /\ \A h \in DOMAIN hooks : hooks[h].callId # callId
  /\ Len(hooks) < MaxHooks
  /\ WebhookPostHandler("none", RealtimeIncomingCall, callId)
NextTwoCalls ==
  \/ \E sid \in CallSids : \E f \in IntakeFields(sid) : IntakeOnce(sid, f[1], f[2])
  \/ \E r \in DOMAIN creates, ok \in BOOLEAN : CreateReturns(r, ok)
  \/ \E c \in CallIds : AiCallOnce(c)
  \/ \E h \in DOMAIN hooks : AcceptReturns(h, "ok")
  \/ \E h \in timers : TimerFires(h)
  \/ \E s \in DOMAIN sessions : WsOpen(s)
  \/ \E s \in DOMAIN sessions, m \in Messages : TriggerArrives(s, m)
SpecTwoCalls == Init /\ [][NextTwoCalls]_vars

\* ------------------------------------------------------------ properties
\* the AI call id a transport was opened for
CallIdOf(s) == hooks[sessions[s].hook].callId
\* a header list carries the conference-name header
HasConferenceHeader(h) ==
  h.isArray /\ \E i \in DOMAIN h.items : h.items[i].name = "X-conferenceName"
\* the transport s has acted on a hand-off trigger
HandedOff(s) == \E i \in DOMAIN sessions[s].sent : sessions[s].sent[i] = keepChatting
\* this step is the message handler of transport s acting on a hand-off trigger
HandoffStep(s) ==
  /\ s \in DOMAIN sessions
  /\ sessions' # sessions
  /\ Len(sessions'[s].sent) > Len(sessions[s].sent)
  /\ Len(sessions[s].sent) > 0
\* participant-create requests sent for a conference with a label
Requested(conference, label) ==
  {r \in DOMAIN creates : creates[r].conference = conference /\ creates[r].label = label}

\* C1: whenever a realtime transport exists for an AI call whose INVITE carried
\* the X-conferenceName header (so before it can process any response.done),
\* the call-id table holds the call id, mapped to the value of such a header
C1_EntryBeforeTransport ==
  \A s \in DOMAIN sessions :
    HasConferenceHeader(sipHeadersOf[CallIdOf(s)]) =>
      /\ CallIdOf(s) \in DOMAIN callIDtoConferenceNameMapping
      /\ \E i \in DOMAIN sipHeadersOf[CallIdOf(s)].items :
            /\ sipHeadersOf[CallIdOf(s)].items[i].name = "X-conferenceName"
            /\ callIDtoConferenceNameMapping[CallIdOf(s)] = sipHeadersOf[CallIdOf(s)].items[i].value

\* a transport of a call with the header has processed a response.done that
\* carried the hand-off trigger
C1_Witness ==
  \E s \in DOMAIN sessions :
    HasConferenceHeader(sipHeadersOf[CallIdOf(s)]) /\ HandedOff(s)

\* C2: a message handler that detects the hand-off trigger while the call-id
\* table holds no conference name for its call id sends no participant-create
\* request, and no rejected promise or exception leaves it
C2_MissingConferenceAborts ==
  [][\A s \in DOMAIN sessions :
       (HandoffStep(s) /\ Falsy(Get(callIDtoConferenceNameMapping, CallIdOf(s)))) =>
         /\ creates' = creates
         /\ unhandledRejections' = unhandledRejections
         /\ running' = running
         /\ sessions'[s].state = "open"]_vars

\* a transport has acted on the trigger with no conference name for its call
C2_Witness ==
  \E s \in DOMAIN sessions :
    /\ HandedOff(s)
    /\ Falsy(Get(callIDtoConferenceNameMapping, CallIdOf(s)))
    /\ "Conference name is undefined" \in errorLog

\* C3 as stated: when the conference name resolves but the caller number or
\* the call token is absent, the hand-off is logged, sends no participant-create
\* request and lets no error escape
C3_MissingCallerDataAborts ==
  [][\A s \in DOMAIN sessions :
       LET conferenceName == Get(callIDtoConferenceNameMapping, CallIdOf(s)) IN
       (/\ HandoffStep(s)
        /\ ~Falsy(conferenceName)
        /\ \/ Nullish(Get(ConferenceNametoCallerIDMapping, conferenceName))
           \/ Nullish(Get(ConferenceNametoCallTokenMapping, conferenceName))) =>
         /\ creates' = creates
         /\ unhandledRejections' = unhandledRejections
         /\ running' = running]_vars

\* C4 as stated: no conference is ever asked for two "virtual agent" or two
\* "human agent" participants
C4_OnePerLabel ==
  \A c \in CallSids, l \in {"virtual agent", "human agent"} :
    Cardinality(Requested(c, l)) <= 1

\* the callback of watcher w is the join of the human agent
HumanJoined(w) ==
  /\ watchers[w].ParticipantLabel = "human agent"
  /\ watchers[w].StatusCallbackEvent = "participant-join"
\* the participants with a label, in a participant list
WithLabel(participants, label) ==
  {i \in DOMAIN participants : participants[i].label = label}
\* the termination requests sent by the task of watcher w
UpdatesOf(w) == {u \in DOMAIN updates : updates[u].watcher = w}

\* C5: a human-agent join callback whose conference lists one customer and
\* one virtual agent sends exactly one termination request, for the call of
\* the virtual agent, and none for any other participant
C5_OneTermination ==
  \A w \in DOMAIN watchers :
    LET ps == watchers[w].participants IN
    (/\ HumanJoined(w)
     /\ Cardinality(WithLabel(ps, "customer")) = 1
     /\ Cardinality(WithLabel(ps, "virtual agent")) = 1) =>
      /\ Cardinality(UpdatesOf(w)) = 1
      /\ \A u \in UpdatesOf(w) :
           \E i \in WithLabel(ps, "virtual agent") : updates[u].callSid = ps[i].callSid

\* the watcher of such a conference, with the human agent in it, has finished
C5_Witness ==
  \E w \in DOMAIN watchers :
    /\ HumanJoined(w)
    /\ watchers[w].pc = "done"
    /\ Cardinality(WithLabel(watchers[w].participants, "customer")) = 1
    /\ Cardinality(WithLabel(watchers[w].participants, "virtual agent")) = 1
    /\ Cardinality(WithLabel(watchers[w].participants, "human agent")) = 1

\* C6 as stated, in the form a finite run decides: once the handler of a
\* /conference-events request and the task it started have finished, the
\* request has been answered with 200
C6_CallbackAnswered ==
  \A w \in DOMAIN watchers :
    watchers[w].pc \in {"returned", "done", "rejected"} => watchers[w].status = 200

\* the last /incoming-call request for a call
LastIntake(sid) ==
  CHOOSE i \in DOMAIN intakes :
    /\ intakes[i].CallSid = sid
    /\ \A j \in DOMAIN intakes : intakes[j].CallSid = sid => j <= i

\* C7: every call-control document names the conference after the CallSid of
\* its request, and when it is returned the store holds conferenceName -> From
\* and conferenceName -> CallToken of that request
C7_IntakeStoresBeforeReply ==
  \A i \in DOMAIN intakes :
    /\ intakes[i].status = 200
    /\ intakes[i].conference = intakes[i].CallSid
    /\ intakes[i].conference \in DOMAIN ConferenceNametoCallerIDMapping
    /\ intakes[i].conference \in DOMAIN ConferenceNametoCallTokenMapping
    /\ i = LastIntake(intakes[i].CallSid) =>
         /\ ConferenceNametoCallerIDMapping[intakes[i].conference] = intakes[i].From
         /\ ConferenceNametoCallTokenMapping[intakes[i].conference] = intakes[i].CallToken

\* two calls have been taken in, each with its number and token
C7_Witness ==
  /\ Len(intakes) = 2
  /\ intakes[1].CallSid # intakes[2].CallSid
  /\ \A i \in DOMAIN intakes : intakes[i].From # Undefined /\ intakes[i].CallToken # Undefined

\* the transports and pending timers started by the webhook request h
StartedBy(h) == {s \in DOMAIN sessions : sessions[s].hook = h}

\* C8: a transport is scheduled or exists only for a webhook whose accept call
\* returned success; a non-success accept is answered with 500 and starts no
\* transport; a successful one is answered with 200 and has scheduled one
C8_TransportOnlyAfterAccept ==
  /\ \A s \in DOMAIN sessions : hooks[sessions[s].hook].accept = "ok"
  /\ \A h \in timers : hooks[h].accept = "ok"
  /\ \A h \in DOMAIN hooks :
       /\ hooks[h].accept = "notok" =>
            hooks[h].status = 500 /\ StartedBy(h) = {} /\ h \notin timers
       /\ hooks[h].accept = "ok" =>
            hooks[h].status = 200 /\ (h \in timers \/ StartedBy(h) # {})
       /\ hooks[h].accept = "pending" => hooks[h].status = 0

\* one accept call was refused and another one succeeded and has its transport
C8_Witness ==
  /\ \E h \in DOMAIN hooks : hooks[h].accept = "notok"
  /\ \E h \in DOMAIN hooks : hooks[h].accept = "ok" /\ StartedBy(h) # {}

\* the webhook request h failed the signature check
BadSignature(h) == h.unwrap = "InvalidWebhookSignatureError"

C10_FailuresSwallowed ==
  \A x \in unhandledRejections : x.reason # "provider request failed"

\* the AI-leg participant-create requests, in the order they were sent
AiLegCreates == SelectSeq(creates, LAMBDA r : r.label = "virtual agent")

\* C11: every /incoming-call request is answered 200 with the conference
\* document in the step that sends its AI-leg participant-create request,
\* so the answer is there while that request is pending, after it succeeded
\* and after it failed
C11_ReplyWithoutWaiting ==
  /\ Len(AiLegCreates) = Len(intakes)
  /\ \A i \in DOMAIN intakes :
        /\ intakes[i].status = 200
        /\ intakes[i].conference = intakes[i].CallSid
        /\ AiLegCreates[i].conference = intakes[i].conference
        /\ AiLegCreates[i].status \in {"pending", "ok", "failed"}
\* two answered intakes: the request of one failed, the other never completed
C11_Witness ==
  \E i, j \in DOMAIN intakes :
    /\ intakes[i].status = 200 /\ intakes[j].status = 200
    /\ AiLegCreates[i].status = "failed"
    /\ AiLegCreates[j].status = "pending"
    /\ ~running

\* the conference a termination request belongs to
ConferenceOfUpdate(u) == watchers[updates[u].watcher].ConferenceSid

IntakeStored(c) ==
  /\ Get(ConferenceNametoCallerIDMapping, c) # Undefined
  /\ Get(ConferenceNametoCallTokenMapping, c) # Undefined
\* a transport of an accepted AI call recorded for conference c received a
\* hand-off trigger
TriggerReceivedFor(c) ==
  \E k \in DOMAIN received :
    /\ received[k].kind = "trigger"
    /\ Get(callIDtoConferenceNameMapping, CallIdOf(received[k].session)) = c
HumanJoinDelivered(c) ==
  \E w \in DOMAIN watchers : HumanJoined(w) /\ watchers[w].ConferenceSid = c
AiLegTerminationRequested(c) ==
  \E u \in DOMAIN updates :
    /\ ConferenceOfUpdate(u) = c
    /\ \E r \in Requested(c, "virtual agent") : updates[u].callSid = ParticipantSid(r)

\* C13: for a conference whose intake stored number and token and whose
\* accepted AI call received a hand-off trigger, a human-agent
\* participant-create request is eventually issued, and once the human-agent
\* join callback is delivered the termination of its virtual agent's call is
\* eventually requested (provider requests succeed, continuations are fair)
C13_WarmTransferCompletes ==
  \A c \in CallSids :
    /\ (IntakeStored(c) /\ TriggerReceivedFor(c)) ~> (Requested(c, "human agent") # {})
    /\ (IntakeStored(c) /\ TriggerReceivedFor(c) /\ HumanJoinDelivered(c))
         ~> AiLegTerminationRequested(c)

\* C14: a termination request is sent only by the task of a callback with
\* label "human agent" and event "participant-join", only for a participant
\* labelled "virtual agent" in the list returned for that callback, and in a
\* step that is no intake, webhook, message or callback handler
C14_OnlyWatcherTerminates ==
  [][updates' # updates =>
       /\ Len(updates') >= Len(updates)
       /\ \A u \in DOMAIN updates : /\ updates'[u].callSid = updates[u].callSid
                                    /\ updates'[u].watcher = updates[u].watcher
       /\ \A u \in DOMAIN updates' \ DOMAIN updates :
             LET w == updates'[u].watcher IN
             /\ w \in DOMAIN watchers
             /\ HumanJoined(w)
             /\ \E i \in WithLabel(watchers'[w].participants, "virtual agent") :
                   watchers'[w].participants[i].callSid = updates'[u].callSid
       /\ UNCHANGED << tables, intakes, creates, hooks, timers, sessions, received >>
       /\ Len(watchers') = Len(watchers)]_vars
\* a virtual agent is being terminated for a human-agent join, and another
\* handler has run
C14_Witness ==
  /\ \E u \in DOMAIN updates : HumanJoined(updates[u].watcher)
  /\ Len(intakes) + Len(hooks) > 0

\* the hand-off triggers delivered on transport s
Triggers(s) ==
  Cardinality({k \in DOMAIN received : received[k].kind = "trigger" /\ received[k].session = s})

\* C15: what a transport has sent is its greeting followed, for every
\* hand-off trigger it received, by the conversation.item.create user message
\* and then a response.create without instructions, whatever became of the
\* human-agent participant request
C15_TwoFollowUps ==
  \A s \in DOMAIN sessions :
    LET sent == sessions[s].sent
        first == Len(sent) - 2 * Triggers(s)
    IN /\ first \in {0, 1}
       /\ first = 1 => sent[1] = responseCreate
       /\ \A n \in 1 .. Triggers(s) :
             /\ sent[first + 2 * n - 1] = keepChatting
             /\ sent[first + 2 * n] = plainResponseCreate
             /\ plainResponseCreate.instructions = Undefined
\* a trigger whose participant request failed, followed by the two sends
C15_Witness ==
  \E r \in DOMAIN creates :
    /\ creates[r].label = "human agent" /\ creates[r].status = "failed"
    /\ Triggers(creates[r].session) = 1
    /\ sessions[creates[r].session].sent = <<responseCreate, keepChatting, plainResponseCreate>>

\* this step delivers a message of the given kind to transport s
Delivers(s, kind) ==
  /\ Len(received') = Len(received) + 1
  /\ received'[Len(received')] = [session |-> s, kind |-> kind]
\* this step runs addHuman for transport s: it sends a human-agent
\* participant request, or ends in one of its own aborts
InvokesAddHuman(s) ==
  \/ /\ Len(creates') = Len(creates) + 1
     /\ creates'[Len(creates')].label = "human agent"
     /\ creates'[Len(creates')].session = s
  \/ /\ creates' = creates
     /\ \/ "Conference name is undefined" \in errorLog'
        \/ \E reason \in {"CallerID is not defined", "CallToken is not defined"} :
              [task |-> "addHuman", reason |-> reason] \in unhandledRejections'

\* C16: the message handler runs the hand-off (addHuman and the two
\* follow-up sends) when the message is a response.done whose first output
\* item is a function_call named addHumanAgent with a call_id, and for any
\* other message it sends nothing and issues no participant request
C16_HandoffIffTrigger ==
  [][\A s \in DOMAIN sessions :
       /\ Delivers(s, "trigger") =>
            /\ InvokesAddHuman(s)
            /\ Len(sessions'[s].sent) = Len(sessions[s].sent) + 2
       /\ (Delivers(s, "other") \/ Delivers(s, "malformed")) =>
            /\ UNCHANGED << creates, sessions, unhandledRejections, running >>
            /\ errorLog' \subseteq errorLog \cup {"Error processing OpenAI message"}]_vars
\* a transport that received a trigger and another well-formed message: one
\* run of addHuman, one pair of follow-up sends
C16_Witness ==
  \E s \in DOMAIN sessions :
    /\ \E k \in DOMAIN received : received[k] = [session |-> s, kind |-> "other"]
    /\ \E k \in DOMAIN received : received[k] = [session |-> s, kind |-> "trigger"]
    /\ sessions[s].sent = <<responseCreate, keepChatting, plainResponseCreate>>
    /\ \E x \in unhandledRejections : x.task = "addHuman"

\* an unparsable message was delivered to transport s
ParseFailed(s) ==
  \E k \in DOMAIN received : received[k] = [session |-> s, kind |-> "malformed"]

\* C17: the step that receives an unparsable message leaves the transport
\* open, sends no provider request and changes no table; and a trigger that
\* arrives on the transport after such a message still runs the hand-off
C17_ParseFailureNonFatal ==
  [][\A s \in DOMAIN sessions :
       /\ Delivers(s, "malformed") =>
            /\ sessions'[s] = sessions[s] /\ sessions[s].state = "open"
            /\ "Error processing OpenAI message" \in errorLog'
            /\ UNCHANGED << tables, creates, updates, hooks, timers, watchers >>
            /\ UNCHANGED << unhandledRejections, running >>
       /\ (ParseFailed(s) /\ Delivers(s, "trigger")) =>
            /\ InvokesAddHuman(s)
            /\ sessions'[s].sent = sessions[s].sent \o <<keepChatting, plainResponseCreate>>]_vars
\* a transport received an unparsable message and then a trigger, and ran
\* the hand-off
C17_Witness ==
  \E s \in DOMAIN sessions : \E k1, k2 \in DOMAIN received :
    /\ k1 < k2
    /\ received[k1] = [session |-> s, kind |-> "malformed"]
    /\ received[k2] = [session |-> s, kind |-> "trigger"]
    /\ HandedOff(s)

\* C18: no two live realtime transports belong to the same AI call id
C18_OneTransportPerCall ==
  \A s1, s2 \in DOMAIN sessions :
    (/\ s1 # s2
     /\ sessions[s1].state # "closed"
     /\ sessions[s2].state # "closed") => CallIdOf(s1) # CallIdOf(s2)

\* the human-agent participant requests
HumanRequests == {r \in DOMAIN creates : creates[r].label = "human agent"}

\* C19: a human-agent participant request sent from the transport of AI call
\* c names the conference the accept handler recorded for c (the first
\* X-conferenceName header of c) and carries the number and the token that
\* the intake of that conference stored, not those of any other call
C19_NoCrossTalk ==
  \A r \in HumanRequests :
    LET c == CallIdOf(creates[r].session) IN
    /\ creates[r].conference = Get(callIDtoConferenceNameMapping, c)
    /\ creates[r].conference = FoundConferenceName(sipHeadersOf[c])
    /\ \E i \in DOMAIN intakes :
          /\ intakes[i].CallSid = creates[r].conference
          /\ intakes[i].From = creates[r].from
          /\ intakes[i].CallToken = creates[r].callToken
    /\ \A i \in DOMAIN intakes :
          intakes[i].CallSid # creates[r].conference =>
            /\ intakes[i].From # creates[r].from
            /\ intakes[i].CallToken # creates[r].callToken
\* both calls handed off, each to its own conference
C19_Witness ==
  \E r1, r2 \in HumanRequests :
    /\ CallIdOf(creates[r1].session) # CallIdOf(creates[r2].session)
    /\ creates[r1].conference # creates[r2].conference
    /\ creates[r1].from # creates[r2].from

\* table t keeps every entry in this step, except possibly the one under k
KeepsAllBut(t, k) ==
  /\ DOMAIN t \subseteq DOMAIN t'
  /\ DOMAIN t' \subseteq DOMAIN t \cup {k}
  /\ \A x \in DOMAIN t \ {k} : t'[x] = t[x]

\* C20: a step changes the correlation tables only if it is the intake
\* handler, which then writes the caller-number and call-token entries of
\* its own CallSid, or the accept handler, which then writes the call-id
\* entry of its own call_id; message, hand-off, callback and continuation
\* steps leave the tables as they are; no step removes a key
C20_TablesFrame ==
  [][/\ DOMAIN callIDtoConferenceNameMapping \subseteq DOMAIN callIDtoConferenceNameMapping'
     /\ DOMAIN ConferenceNametoCallerIDMapping \subseteq DOMAIN ConferenceNametoCallerIDMapping'
     /\ DOMAIN ConferenceNametoCallTokenMapping \subseteq DOMAIN ConferenceNametoCallTokenMapping'
     /\ tables' # tables =>
          \/ /\ Len(intakes') = Len(intakes) + 1
             /\ UNCHANGED << callIDtoConferenceNameMapping, hooks, received, watchers >>
             /\ KeepsAllBut(ConferenceNametoCallerIDMapping, intakes'[Len(intakes')].CallSid)
             /\ KeepsAllBut(ConferenceNametoCallTokenMapping, intakes'[Len(intakes')].CallSid)
          \/ /\ Len(hooks') = Len(hooks) + 1
             /\ UNCHANGED << ConferenceNametoCallerIDMapping, ConferenceNametoCallTokenMapping,
                             intakes, received, watchers >>
             /\ KeepsAllBut(callIDtoConferenceNameMapping, hooks'[Len(hooks')].callId)
     /\ (\/ received' # received \/ sessions' # sessions \/ watchers' # watchers
         \/ updates' # updates \/ timers' # timers
         \/ (creates' # creates /\ intakes' = intakes)) => tables' = tables]_vars
\* a CallSid announced twice, the second time without its number: the key
\* written by the first intake is still there, with the later value
C20_Witness ==
  \E sid \in CallSids :
    /\ Len(intakes) = 2
    /\ intakes[1].CallSid = sid /\ intakes[2].CallSid = sid
    /\ intakes[1].From = FromOf(sid) /\ intakes[2].From = Undefined
    /\ DOMAIN ConferenceNametoCallerIDMapping = {sid}
    /\ ConferenceNametoCallerIDMapping[sid] = Undefined
    /\ ConferenceNametoCallTokenMapping[sid] = TokenOf(sid)

====
